---- MODULE Spec2Model ----
(***************************************************************************)
(* poptrie: the builder of build_bin.py (BinBuilder.add_cidr, _prune,      *)
(* save) as a state machine over one builder object and the file it        *)
(* writes, and the reader's open/lookup (the poptrie extension module,     *)
(* which build_bin.py's tests import) over that file.                      *)
(***************************************************************************)
EXTENDS Integers, Sequences, FiniteSets, TLC

\* root:   the tree of the builder (BinBuilder.root)
\* raised: the exception the last call raised, "none" when it returned
\* file:   the file the last save wrote, NoFile before the first save
\* last:   the last call made on the builder: "new", "add_cidr" or "save"
\* ncalls: the number of calls made
\* log:    the calls made, in order, with their arguments (kept by SpecLog)
VARIABLES root, raised, file, last, ncalls, log

vars == <<root, raised, file, last, ncalls, log>>

(***************************************************************************)
(* Bounds of the model.                                                    *)
(***************************************************************************)
\* Calls (add_cidr or save) made on one builder in a behaviour of Spec.
MaxCalls == 3
\* Calls recorded in the history of a behaviour of SpecLog.
MaxLog == 3
\* Calls made on one builder in a behaviour of SpecTree.
MaxTreeCalls == 2
\* Calls (add_cidr, a load of a list, or save) in a behaviour of SpecBulk.
MaxBulkCalls == 3

(***************************************************************************)
(* Program constants.                                                      *)
(***************************************************************************)
NODE_SIZE == 72
HEADER_SIZE == 16
MAGIC == "PTV2"
\* Python's None (Node.value before the node is made a leaf).
None == -1
\* 0xFF and 0xFFFF of add_cidr.
ByteMask == 255
MaxValue == 65535

Bytes == 0 .. 255

(***************************************************************************)
(* Python integer operators used by add_cidr, on the values it meets.      *)
(***************************************************************************)
RECURSIVE Pow2(_)
Pow2(n) == IF n <= 0 THEN 1 ELSE 2 * Pow2(n - 1)

\* a & b, for b >= 0 (Python's & on a negative a sign-extends it).
RECURSIVE BitAnd(_, _)
BitAnd(a, b) ==
    IF b = 0 \/ a = 0 THEN 0
    ELSE (a % 2) * (b % 2) + 2 * BitAnd(a \div 2, b \div 2)

\* a | b, for a, b >= 0.
RECURSIVE BitOr(_, _)
BitOr(a, b) ==
    IF a = 0 THEN b
    ELSE IF b = 0 THEN a
    ELSE (IF a % 2 = 1 \/ b % 2 = 1 THEN 1 ELSE 0) + 2 * BitOr(a \div 2, b \div 2)

\* The shifts were they by 8 bits more (<<) and by one bit more (>>).
ShiftLeftByte(a, n) == a * Pow2(n + 8)
ShiftRightByOne(a, n) == a \div Pow2(n + 1)

\* a << n and a >> n (>> is floor division, also of a negative a).
ShiftLeft(a, n) == a * Pow2(n)
ShiftRight(a, n) == a \div Pow2(n)

\* seq[i] as Python indexes a bytes object: 0-based, a negative i counts from
\* the end, and an index outside either way raises IndexError.
PyInRange(seq, i) == i < Len(seq) /\ i >= 0 - Len(seq)
PyIndex(seq, i) == IF i >= 0 THEN seq[i + 1] ELSE seq[Len(seq) + i + 1]

(***************************************************************************)
(* The tree of the builder.  The Node objects reachable from the root are  *)
(* held in one function from the path of a node (the byte keys from the    *)
(* root to it, <<>> for the root) to its fields; the children field holds  *)
(* the keys of the node's children dict, and the child under key b of the  *)
(* node at path p is the node at path Append(p, b).                        *)
(***************************************************************************)
\* Node(): no children, not a leaf, no value.
Node == [children |-> {}, is_leaf |-> FALSE, value |-> None]

\* The fresh leaf were it to keep a child key.
LeafNodeWithChild(value) == [children |-> {0}, is_leaf |-> TRUE, value |-> value]

\* The fresh leaf add_cidr stores for an unaligned prefix.
LeafNode(value) == [children |-> {}, is_leaf |-> TRUE, value |-> value]

\* BinBuilder.__init__: the tree of one empty root.
NewTree == [q \in {<<>>} |-> Node]

IsPrefix(p, q) == Len(p) <= Len(q) /\ SubSeq(q, 1, Len(p)) = p

\* The paths of the nodes strictly below the node at p.
Below(t, p) == {q \in DOMAIN t : Len(q) > Len(p) /\ IsPrefix(p, q)}

(***************************************************************************)
(* The inputs: CIDR texts and tags.  The texts are the ones of             *)
(* tests/test_poptrie.py plus texts inside, around and outside them; what  *)
(* str.split, int and socket.inet_pton give on each is tabulated.          *)
(***************************************************************************)
CidrTexts ==
    { "1.0.1.0/24", "1.0.1.5/32", "110.16.0.0/12", "110.16.0.0/13",
      "110.16.0.0/16", "240e::/18", "240e::1/128", "100:100::/32",
      "0.0.0.0/0", "0.0.0.0/1", "128.0.0.0/1",
      "1.0.1.0", "1.0.1.0/24/7", "1.0.1.0/x", "1.0.1/24",
      "1.0.1.0/33", "1.0.1.5/-1", "240e::/129" }

Values == {0, 1, 65535, 65536}

\* cidr.split("/")
SplitSlash(cidr) ==
    CASE cidr = "1.0.1.0/24"    -> <<"1.0.1.0", "24">>
      [] cidr = "1.0.1.5/32"    -> <<"1.0.1.5", "32">>
      [] cidr = "110.16.0.0/12" -> <<"110.16.0.0", "12">>
      [] cidr = "110.16.0.0/13" -> <<"110.16.0.0", "13">>
      [] cidr = "110.16.0.0/16" -> <<"110.16.0.0", "16">>
      [] cidr = "240e::/18"     -> <<"240e::", "18">>
      [] cidr = "240e::1/128"   -> <<"240e::1", "128">>
      [] cidr = "100:100::/32"  -> <<"100:100::", "32">>
      [] cidr = "0.0.0.0/0"     -> <<"0.0.0.0", "0">>
      [] cidr = "0.0.0.0/1"     -> <<"0.0.0.0", "1">>
      [] cidr = "128.0.0.0/1"   -> <<"128.0.0.0", "1">>
      [] cidr = "1.0.0.0/9"     -> <<"1.0.0.0", "9">>
      [] cidr = "1.128.0.0/9"   -> <<"1.128.0.0", "9">>
      [] cidr = "110.32.0.0/12" -> <<"110.32.0.0", "12">>
      [] cidr = "1.0.2.0/24"    -> <<"1.0.2.0", "24">>
      [] cidr = "1.0.1.0"       -> <<"1.0.1.0">>
      [] cidr = "1.0.1.0/24/7"  -> <<"1.0.1.0", "24", "7">>
      [] cidr = "1.0.1.0/x"     -> <<"1.0.1.0", "x">>
      [] cidr = "1.0.1/24"      -> <<"1.0.1", "24">>
      [] cidr = "1.0.1.0/33"    -> <<"1.0.1.0", "33">>
      [] cidr = "1.0.1.5/-1"    -> <<"1.0.1.5", "-1">>
      [] cidr = "240e::/129"    -> <<"240e::", "129">>

\* int(mask_part): the texts int() accepts, and its value.
IntTexts == {"0", "1", "7", "8", "9", "12", "13", "16", "18", "24", "32", "33", "128", "129", "-1"}
IntOf(s) ==
    CASE s = "0" -> 0 [] s = "1" -> 1 [] s = "7" -> 7 [] s = "8" -> 8 [] s = "9" -> 9
      [] s = "12" -> 12
      [] s = "13" -> 13 [] s = "16" -> 16 [] s = "18" -> 18 [] s = "24" -> 24
      [] s = "32" -> 32 [] s = "33" -> 33 [] s = "128" -> 128 [] s = "129" -> 129
      [] s = "-1" -> 0 - 1

\* ":" in ip_part
HasColon(ip_part) == ip_part \in {"240e::", "240e::1", "100:100::"}

Zeros(n) == [i \in 1 .. n |-> 0]

\* socket.inet_pton(family, ip_part): the texts it accepts in each family, and
\* the packed bytes.
PtonTexts(family) ==
    IF family = "AF_INET6" THEN {"240e::", "240e::1", "100:100::"}
    ELSE {"1.0.1.0", "1.0.1.5", "110.16.0.0", "0.0.0.0", "128.0.0.0",
          "1.0.0.0", "1.128.0.0", "110.32.0.0", "1.0.2.0"}
InetPton(ip_part) ==
    CASE ip_part = "1.0.1.0"    -> <<1, 0, 1, 0>>
      [] ip_part = "1.0.1.5"    -> <<1, 0, 1, 5>>
      [] ip_part = "110.16.0.0" -> <<110, 16, 0, 0>>
      [] ip_part = "0.0.0.0"    -> <<0, 0, 0, 0>>
      [] ip_part = "128.0.0.0"  -> <<128, 0, 0, 0>>
      [] ip_part = "1.0.0.0"    -> <<1, 0, 0, 0>>
      [] ip_part = "1.128.0.0"  -> <<1, 128, 0, 0>>
      [] ip_part = "110.32.0.0" -> <<110, 32, 0, 0>>
      [] ip_part = "1.0.2.0"    -> <<1, 0, 2, 0>>
      [] ip_part = "240e::"     -> <<36, 14>> \o Zeros(14)
      [] ip_part = "240e::1"    -> <<36, 14>> \o Zeros(13) \o <<1>>
      [] ip_part = "100:100::"  -> <<1, 0, 1, 0>> \o Zeros(12)

\* The try block of add_cidr: [ok |-> FALSE] when any of its four statements
\* raises, else the mask, the family and the packed bytes.
ParseCidr(cidr) ==
    LET parts == SplitSlash(cidr) IN
    IF Len(parts) # 2 THEN [ok |-> FALSE]
    ELSE LET ip_part == parts[1]
             mask_part == parts[2]
         IN  IF mask_part \notin IntTexts THEN [ok |-> FALSE]
             ELSE LET family == IF HasColon(ip_part) THEN "AF_INET6" ELSE "AF_INET"
                  IN  IF ip_part \notin PtonTexts(family) THEN [ok |-> FALSE]
                      ELSE [ok |-> TRUE, mask |-> IntOf(mask_part),
                            family |-> family, ip_bytes |-> InetPton(ip_part)]

(***************************************************************************)
(* BinBuilder.add_cidr                                                     *)
(***************************************************************************)
\* The range check were it to accept the tag 0.
ValueInRangeFromZero(value) == 0 <= value /\ value <= MaxValue

\* The range check of add_cidr on its tag.
ValueInRange(value) == 1 <= value /\ value <= MaxValue

\* The variables of add_cidr before its loop: the tree, the path of curr,
\* the loop index i, what was raised, and whether the call has returned.
WalkStart(t) ==
    [tree |-> t, curr |-> <<>>, i |-> 0, raised |-> "none", returned |-> FALSE]

\* One iteration of the loop of step 1: return at a leaf; index ip_bytes[i];
\* create the child under that byte when absent; step to it.
WalkStep(st, ip_bytes) ==
    IF st.tree[st.curr].is_leaf
    THEN [st EXCEPT !.returned = TRUE]
    ELSE IF ~PyInRange(ip_bytes, st.i)
    THEN [st EXCEPT !.raised = "IndexError", !.returned = TRUE]
    ELSE LET byte == PyIndex(ip_bytes, st.i)
             child == Append(st.curr, byte)
             t == st.tree
         IN  [st EXCEPT
                !.tree = IF byte \in t[st.curr].children
                         THEN t
                         ELSE [q \in (DOMAIN t) \cup {child} |->
                                 IF q = child THEN Node
                                 ELSE IF q = st.curr
                                 THEN [t[q] EXCEPT !.children = @ \cup {byte}]
                                 ELSE t[q]],
                !.curr = child,
                !.i = st.i + 1]

\* The loop of step 1: for i in range(steps).
RECURSIVE Walk(_, _, _)
Walk(st, ip_bytes, steps) ==
    IF st.returned \/ st.i >= steps THEN st
    ELSE Walk(WalkStep(st, ip_bytes), ip_bytes, steps)

\* Step 2 were it to store nothing.
InsertTailStoresNothing(t, curr, ip_bytes, steps, remaining, value) ==
    [tree |-> t, raised |-> "none"]

\* Step 2 of add_cidr at the node the walk ended on: an aligned prefix makes
\* the node a leaf and drops its children; an unaligned one returns at a leaf
\* and else stores fresh leaves at the bytes start_byte .. end_byte, in place
\* of whatever was there.
InsertTail(t, curr, ip_bytes, steps, remaining, value) ==
    IF remaining = 0
    THEN [tree |-> [q \in (DOMAIN t) \ Below(t, curr) |->
                      IF q = curr THEN LeafNode(value) ELSE t[q]],
          raised |-> "none"]
    ELSE IF t[curr].is_leaf
    THEN [tree |-> t, raised |-> "none"]
    ELSE IF ~PyInRange(ip_bytes, steps)
    THEN [tree |-> t, raised |-> "IndexError"]
    ELSE LET shift == 8 - remaining
             start_byte == BitAnd(PyIndex(ip_bytes, steps), ShiftLeft(ByteMask, shift))
             end_byte == BitOr(start_byte, ShiftRight(ByteMask, remaining))
             fresh == {Append(curr, b) : b \in start_byte .. end_byte}
             replaced == UNION {Below(t, q) : q \in fresh \cap DOMAIN t}
         IN  [tree |-> [q \in ((DOMAIN t) \ replaced) \cup fresh |->
                          IF q \in fresh THEN LeafNode(value)
                          ELSE IF q = curr
                          THEN [t[q] EXCEPT !.children = @ \cup (start_byte .. end_byte)]
                          ELSE t[q]],
              raised |-> "none"]

\* The body of add_cidr were step 2 to leave a leaf it arrives on as it is.
InsertKeepsLeaf(t, ip_bytes, mask, value) ==
    LET steps == ShiftRight(mask, 3)
        remaining == BitAnd(mask, 7)
        st == Walk(WalkStart(t), ip_bytes, steps)
    IN  IF st.returned \/ st.tree[st.curr].is_leaf
        THEN [tree |-> st.tree, raised |-> st.raised]
        ELSE InsertTail(st.tree, st.curr, ip_bytes, steps, remaining, value)

\* The body of add_cidr after the try block.
Insert(t, ip_bytes, mask, value) ==
    LET steps == ShiftRight(mask, 3)
        remaining == BitAnd(mask, 7)
        st == Walk(WalkStart(t), ip_bytes, steps)
    IN  IF st.returned
        THEN [tree |-> st.tree, raised |-> st.raised]
        ELSE InsertTail(st.tree, st.curr, ip_bytes, steps, remaining, value)

\* add_cidr(cidr, value) on the tree t: the tree it leaves and the exception
\* it raises ("none": it returns).
add_cidr(t, cidr, value) ==
    IF ~ValueInRange(value)
    THEN [tree |-> t, raised |-> "ValueError"]
    ELSE LET p == ParseCidr(cidr) IN
         IF ~p.ok
         THEN [tree |-> t, raised |-> "none"]
         ELSE Insert(t, p.ip_bytes, p.mask, value)

(***************************************************************************)
(* BinBuilder._prune                                                       *)
(***************************************************************************)
\* The bytes of S within lo .. hi in ascending order (the range is halved).
RECURSIVE SortedIn(_, _, _)
SortedIn(S, lo, hi) ==
    IF lo > hi THEN <<>>
    ELSE IF lo = hi THEN (IF lo \in S THEN <<lo>> ELSE <<>>)
    ELSE SortedIn(S, lo, (lo + hi) \div 2) \o SortedIn(S, (lo + hi) \div 2 + 1, hi)

\* sorted(S) of a set of byte keys.
Sorted(S) == SortedIn(S, 0, 255)

\* One iteration of the loop of _prune were it not to compare the values.
PruneStepAnyValue(st, child) ==
    IF ~child.is_leaf
    THEN [all_children_are_leaf |-> FALSE, first_value |-> st.first_value]
    ELSE IF st.all_children_are_leaf /\ st.first_value = None
    THEN [all_children_are_leaf |-> TRUE, first_value |-> child.value]
    ELSE st

\* One iteration of the loop of _prune, on the already pruned child: the
\* flag all_children_are_leaf and first_value after it.
PruneStep(st, child) ==
    IF ~child.is_leaf
    THEN [all_children_are_leaf |-> FALSE, first_value |-> st.first_value]
    ELSE IF st.all_children_are_leaf
    THEN IF st.first_value = None
         THEN [all_children_are_leaf |-> TRUE, first_value |-> child.value]
         ELSE IF child.value # st.first_value
         THEN [all_children_are_leaf |-> FALSE, first_value |-> st.first_value]
         ELSE st
    ELSE st

\* The loop of _prune at the node at p over its already pruned children, over
\* the keys number lo .. hi in order, from the flag and first_value st.  (The
\* keys are taken in ascending order; the dict's order gives the same flag,
\* and the same first_value when the flag ends TRUE.  The range is halved,
\* the state after the first half evaluated before the second half starts,
\* only to keep the evaluation shallow: the iterations are in order.)
RECURSIVE PruneScan(_, _, _, _, _, _)
PruneScan(t, p, keys, lo, hi, st) ==
    IF lo > hi THEN st
    ELSE IF lo = hi THEN PruneStep(st, t[Append(p, keys[lo])])
    ELSE LET mid == (lo + hi) \div 2
             half == PruneScan(t, p, keys, lo, mid, st)
         IN  IF half.all_children_are_leaf \in BOOLEAN
             THEN PruneScan(t, p, keys, mid + 1, hi, half)
             ELSE half

\* How many children make _prune consider a node for merging.
FullFanout == 256

\* Whether _prune, its recursion into the children of the node at p done,
\* makes that node a leaf, and with which value.
PruneMerge(t, p) ==
    LET keys == Sorted(t[p].children)
        scan == PruneScan(t, p, keys, 1, Len(keys),
                          [all_children_are_leaf |-> Len(keys) = FullFanout,
                           first_value |-> None])
    IN  [merge |-> scan.all_children_are_leaf /\ scan.first_value # None,
         value |-> scan.first_value]

\* _prune on every node at depth d that has children, the nodes below depth d
\* being pruned already: a merged node becomes a leaf with no children.
PruneLevel(t, d) ==
    LET at == {p \in DOMAIN t : Len(p) = d /\ t[p].children # {}}
        merged == {p \in at : PruneMerge(t, p).merge}
        dropped == UNION {Below(t, p) : p \in merged}
    IN  IF merged = {} THEN t
        ELSE [q \in (DOMAIN t) \ dropped |->
                IF q \in merged
                THEN [children |-> {}, is_leaf |-> TRUE,
                      value |-> PruneMerge(t, q).value]
                ELSE t[q]]

\* _prune is a post-order walk: it examines a node after it has examined all
\* nodes below it, and the examination reads the node's own children only.
\* The levels are taken deepest first, which is such an order.  (The tree
\* after a level is evaluated, by the test on its domain, before the next
\* level starts.)
RECURSIVE PruneFrom(_, _)
PruneFrom(t, d) ==
    IF d < 0 THEN t
    ELSE LET pruned == PruneLevel(t, d)
         IN  IF DOMAIN pruned = {} THEN pruned ELSE PruneFrom(pruned, d - 1)

\* The depth of the deepest node of the tree.
Depth(t) ==
    CHOOSE d \in {Len(p) : p \in DOMAIN t} : \A p \in DOMAIN t : Len(p) <= d

\* self._prune(self.root): the tree it leaves.
Prune(t) == PruneFrom(t, Depth(t))

(***************************************************************************)
(* BinBuilder.save: the serializer                                         *)
(***************************************************************************)
\* Bytes of one bitmap (to_bytes(32, "big")) and of the two u32 of "<II".
BitmapBytes == 32
OffsetBytes == 8
\* Bytes of one u16 of the value table ("H").
ValueBytes == 2
\* Values written by one struct.pack of the value table.
ChunkSize == 1000

\* Bit position of byte key k in a bitmap.  A bitmap is modelled as the set
\* of its set bit positions (the code holds it as a 256-bit integer).
BitPos(k) == 255 - k

\* The keys of the children of the node at p that are leaves, and of those
\* that have children of their own.
LeafKeys(t, p) == {k \in t[p].children : t[Append(p, k)].is_leaf}
ChildKeys(t, p) == {k \in t[p].children : t[Append(p, k)].children # {}}

\* leaf_bm_int and child_bm_int of the node at p.
LeafBitmap(t, p) == {BitPos(k) : k \in LeafKeys(t, p)}
ChildBitmap(t, p) == {BitPos(k) : k \in ChildKeys(t, p)}

\* local_leaf_values and nodes_with_children (as paths) of the node at p, in
\* key order.
LocalLeafValues(t, p) ==
    LET ks == Sorted(LeafKeys(t, p))
    IN  [i \in 1 .. Len(ks) |-> t[Append(p, ks[i])].value]
NodesWithChildren(t, p) ==
    LET ks == Sorted(ChildKeys(t, p))
    IN  [i \in 1 .. Len(ks) |-> Append(p, ks[i])]

\* jump_offset were it one record further for a node with such children.
JumpOffsetSkipsOne(nodes_with_children, next_layer_start_offset) ==
    IF Len(nodes_with_children) > 0 THEN next_layer_start_offset + NODE_SIZE ELSE 0

\* jump_offset of a node: where its first child record will be, or 0.
JumpOffset(nodes_with_children, next_layer_start_offset) ==
    IF Len(nodes_with_children) > 0 THEN next_layer_start_offset ELSE 0

\* base_index were it the length of values plus one.
BaseIndexAfter(values) == Len(values) + 1

\* base_index of a node: the length of values before its leaves are added.
BaseIndex(values) == Len(values)

\* The 72-byte record of the node at p.
NodeRecord(t, p, jump_offset, base_index) ==
    [child_bm |-> ChildBitmap(t, p), leaf_bm |-> LeafBitmap(t, p),
     child_offset |-> jump_offset, leaf_base_index |-> base_index]

\* next_layer_start_offset were it advanced by one record for any n > 0.
AdvanceOffsetByOne(next_layer_start_offset, n) ==
    next_layer_start_offset + (IF n > 0 THEN NODE_SIZE ELSE 0)

\* next_layer_start_offset after a node that sends n nodes to the next layer.
AdvanceOffset(next_layer_start_offset, n) == next_layer_start_offset + n * NODE_SIZE

\* The variables of the loops of save before the first node is handled
\* (current_layer and next_layer hold the paths of their nodes).
SaveStart ==
    [current_layer |-> << <<>> >>, i |-> 1, next_layer |-> <<>>,
     next_layer_start_offset |-> HEADER_SIZE + 1 * NODE_SIZE,
     final_data |-> <<>>, values |-> <<>>]

\* One iteration of the for loop of save, on node number st.i of
\* current_layer: its record is appended to final_data (modelled as the
\* sequence of the records), its leaf values to values, its children-bearing
\* children to next_layer.
SaveNode(t, st) ==
    LET p == st.current_layer[st.i]
        nwc == NodesWithChildren(t, p)
        rec == NodeRecord(t, p, JumpOffset(nwc, st.next_layer_start_offset),
                          BaseIndex(st.values))
    IN  [current_layer |-> st.current_layer,
         i |-> st.i + 1,
         next_layer |-> st.next_layer \o nwc,
         next_layer_start_offset |->
             AdvanceOffset(st.next_layer_start_offset, Len(nwc)),
         final_data |-> Append(st.final_data, rec),
         values |-> st.values \o LocalLeafValues(t, p)]

\* The for loop of save over current_layer, from node number st.i.
RECURSIVE SaveLayer(_, _)
SaveLayer(t, st) ==
    IF st.i > Len(st.current_layer) THEN st
    ELSE SaveLayer(t, SaveNode(t, st))

\* The while loop of save over the layers.
RECURSIVE SerializeLayers(_, _)
SerializeLayers(t, st) ==
    IF Len(st.current_layer) = 0 THEN st
    ELSE LET done == SaveLayer(t, st)
         IN  SerializeLayers(t, [done EXCEPT !.current_layer = done.next_layer,
                                             !.i = 1, !.next_layer = <<>>])

\* len(final_data) were the u32 pair left out of each record.
FinalDataLenNoOffsets(final_data) == Len(final_data) * (2 * BitmapBytes)

\* len(final_data): each record appended 32 + 32 + 8 bytes.
FinalDataLen(final_data) == Len(final_data) * (2 * BitmapBytes + OffsetBytes)

\* The value table as written, chunk by chunk.
RECURSIVE WriteValues(_, _)
WriteValues(values, i) ==
    IF i >= Len(values) THEN <<>>
    ELSE LET hi == IF i + ChunkSize < Len(values) THEN i + ChunkSize ELSE Len(values)
         IN  SubSeq(values, i + 1, hi) \o WriteValues(values, i + ChunkSize)

\* node_count of the header.
NodeCount(final_data) == FinalDataLen(final_data) \div NODE_SIZE

\* The file save writes for the (already pruned) tree t: the header
\* fields, the node array, the value table and the number of bytes written.
Serialize(t) ==
    LET out == SerializeLayers(t, SaveStart)
        written == WriteValues(out.values, 0)
    IN  [magic |-> MAGIC,
         node_cnt |-> NodeCount(out.final_data),
         val_cnt |-> Len(out.values),
         reserved |-> 0,
         nodes |-> out.final_data,
         values |-> written,
         size |-> HEADER_SIZE + FinalDataLen(out.final_data) + Len(written) * ValueBytes]

\* save(output_path) on the tree t: the pruned tree it leaves in the builder
\* and the file it writes.
save(t) ==
    LET pruned == Prune(t)
    IN  [tree |-> pruned, file |-> Serialize(pruned)]

(***************************************************************************)
(* The reader: open-time validation and lookup over a written file.        *)
(***************************************************************************)
\* The validation of open: length, magic, and a root node at offset 16.
OpenOk(f) ==
    /\ f.size >= HEADER_SIZE + f.node_cnt * NODE_SIZE + f.val_cnt * ValueBytes
    /\ f.magic = MAGIC
    /\ f.node_cnt >= 1

\* Whether a node record starts at byte offset off of the file, and which.
IsNodeOffset(f, off) ==
    /\ off >= HEADER_SIZE
    /\ (off - HEADER_SIZE) % NODE_SIZE = 0
    /\ (off - HEADER_SIZE) \div NODE_SIZE < f.node_cnt
    /\ (off - HEADER_SIZE) \div NODE_SIZE < Len(f.nodes)
RecordAt(f, off) == f.nodes[(off - HEADER_SIZE) \div NODE_SIZE + 1]

\* Whether the value table holds entry number idx (from 0), and the entry.
IsValueIndex(f, idx) == idx >= 0 /\ idx < f.val_cnt /\ idx < Len(f.values)
ValueAt(f, idx) == f.values[idx + 1]

\* The number of set bits of a bitmap strictly above bit.
Rank(bm, bit) == Cardinality({p \in bm : p > bit})

\* The variables of lookup before the first byte of the key: besides node_off
\* and best_tag, the node offsets read so far (visited), every node offset
\* computed (followed), the value indexes read (value_idx), whether a read
\* fell outside the node array or the value table (fault), and whether the
\* walk has stopped.
LookupStart ==
    [i |-> 1, node_off |-> HEADER_SIZE, best_tag |-> 0, visited |-> <<>>,
     followed |-> <<HEADER_SIZE>>, value_idx |-> <<>>, fault |-> FALSE,
     stopped |-> FALSE]

\* One iteration of the loop of lookup, on byte number st.i of the key.
LookupStep(f, key, st) ==
    IF ~IsNodeOffset(f, st.node_off)
    THEN [st EXCEPT !.fault = TRUE, !.stopped = TRUE]
    ELSE LET rec == RecordAt(f, st.node_off)
             bit == 255 - key[st.i]
             is_leaf == bit \in rec.leaf_bm
             idx == rec.leaf_base_index + Rank(rec.leaf_bm, bit)
             seen == Append(st.visited, st.node_off)
             vidx == IF is_leaf THEN Append(st.value_idx, idx) ELSE st.value_idx
         IN  IF is_leaf /\ ~IsValueIndex(f, idx)
             THEN [st EXCEPT !.visited = seen, !.value_idx = vidx,
                             !.fault = TRUE, !.stopped = TRUE]
             ELSE LET best == IF is_leaf THEN ValueAt(f, idx) ELSE st.best_tag
                  IN  IF bit \in rec.child_bm
                      THEN LET next == rec.child_offset
                                         + Rank(rec.child_bm, bit) * NODE_SIZE
                           IN  [st EXCEPT !.i = st.i + 1, !.node_off = next,
                                          !.best_tag = best, !.visited = seen,
                                          !.followed = Append(st.followed, next),
                                          !.value_idx = vidx]
                      ELSE [st EXCEPT !.best_tag = best, !.visited = seen,
                                      !.value_idx = vidx, !.stopped = TRUE]

RECURSIVE LookupFrom(_, _, _)
LookupFrom(f, key, st) ==
    IF st.stopped \/ st.i > Len(key) THEN st
    ELSE LookupFrom(f, key, LookupStep(f, key, st))

\* lookup(key): the walk from the root record; its best_tag is the result.
Lookup(f, key) == LookupFrom(f, key, LookupStart)

\* lookup_code(key)
LookupCode(f, key) == Lookup(f, key).best_tag

(***************************************************************************)
(* The state machine: one builder, the calls made on it, the file written. *)
(***************************************************************************)
NoFile ==
    [magic |-> "", node_cnt |-> 0, val_cnt |-> 0, reserved |-> 0,
     nodes |-> <<>>, values |-> <<>>, size |-> 0]

\* BinBuilder(): an empty root; nothing written yet.
Init ==
    /\ root = NewTree
    /\ raised = "none"
    /\ file = NoFile
    /\ last = "new"
    /\ ncalls = 0
    /\ log = <<>>

\* What builder.add_cidr(cidr, value) does to the builder.
AddCidrCall(cidr, value) ==
    /\ LET r == add_cidr(root, cidr, value)
       IN  /\ root' = r.tree
           /\ raised' = r.raised
    /\ last' = "add_cidr"
    /\ ncalls' = ncalls + 1
    /\ UNCHANGED file

\* What builder.save(path) does to the builder and the file.
SaveCall ==
    /\ LET r == save(root)
       IN  /\ root' = r.tree
           /\ file' = r.file
    /\ raised' = "none"
    /\ last' = "save"
    /\ ncalls' = ncalls + 1

\* builder.add_cidr(cidr, value)
AddCidr(cidr, value) ==
    /\ ncalls < MaxCalls
    /\ AddCidrCall(cidr, value)
    /\ UNCHANGED log

\* builder.save(path)
Save ==
    /\ ncalls < MaxCalls
    /\ SaveCall
    /\ UNCHANGED log

Next ==
    \/ \E cidr \in CidrTexts, value \in Values : AddCidr(cidr, value)
    \/ Save

Spec == Init /\ [][Next]_vars

(***************************************************************************)
(* The same calls with their history recorded, over the texts and tags of  *)
(* LogTexts and LogValues.                                                 *)
(***************************************************************************)
LogTexts ==
    { "1.0.1.0/24", "1.0.1.5/32", "110.16.0.0/12", "110.16.0.0/13",
      "110.16.0.0/16", "240e::/18", "240e::1/128", "0.0.0.0/0", "1.0.1.0/x" }

LogValues == {1, 65535}

LoggedAddCidr(cidr, value) ==
    /\ Len(log) < MaxLog
    /\ AddCidrCall(cidr, value)
    /\ log' = Append(log, [op |-> "add_cidr", cidr |-> cidr, value |-> value])

LoggedSave ==
    /\ Len(log) < MaxLog
    /\ SaveCall
    /\ log' = Append(log, [op |-> "save", cidr |-> "", value |-> 0])

NextLog ==
    \/ \E cidr \in LogTexts, value \in LogValues : LoggedAddCidr(cidr, value)
    \/ LoggedSave

SpecLog == Init /\ [][NextLog]_vars

(***************************************************************************)
(* The same calls over valid prefixes and tags only, among them pairs of   *)
(* prefixes of one mask length: the trees add_cidr is then applied to.     *)
(***************************************************************************)
TreeTexts ==
    { "0.0.0.0/1", "128.0.0.0/1", "110.16.0.0/12", "110.32.0.0/12",
      "110.16.0.0/16", "1.0.1.0/24", "1.0.2.0/24", "1.0.1.5/32",
      "240e::/18", "240e::1/128" }

TreeValues == {1, 65535}

TreeAddCidr(cidr, value) ==
    /\ ncalls < MaxTreeCalls
    /\ AddCidrCall(cidr, value)
    /\ UNCHANGED log

TreeSave ==
    /\ ncalls < MaxTreeCalls
    /\ SaveCall
    /\ UNCHANGED log

NextTree ==
    \/ \E cidr \in TreeTexts, value \in TreeValues : TreeAddCidr(cidr, value)
    \/ TreeSave

SpecTree == Init /\ [][NextTree]_vars

(***************************************************************************)
(* load_txt_dir: the *.txt files of a directory, each named by a country   *)
(* code and listing prefixes, are read into one list of (line, tag) pairs, *)
(* the list is sorted by mask, and add_cidr is called on each pair.  A     *)
(* file is its stem, a sequence of characters, and its lines; a line is    *)
(* its text, and for the text "x.0.0.0/8" the first byte x it stands for.  *)
(***************************************************************************)
\* str.upper() and ord() on the characters of the stems ("U+0100" is the
\* one character of that code point, its own upper case).
Upper(c) ==
    CASE c = "a" -> "A" [] c = "b" -> "B" [] c = "c" -> "C" [] OTHER -> c
Ord(c) ==
    CASE c = "A" -> 65 [] c = "B" -> 66 [] c = "C" -> 67 [] c = "U+0100" -> 256

\* s.upper() of a sequence of characters.
UpperStr(s) == [i \in 1 .. Len(s) |-> Upper(s[i])]

\* country_code_to_u16(country_code)
country_code_to_u16(country_code) ==
    LET cc == UpperStr(country_code)
    IN  BitOr(ShiftLeft(Ord(cc[1]), 8), Ord(cc[2]))

\* The lines of the files as read, and line.strip() of them.
Line(text) == [text |-> text, x |-> 0]
Slash8Line(x) == [text |-> "x.0.0.0/8\n", x |-> x]
StripText(text) ==
    CASE text = "x.0.0.0/8\n"     -> "x.0.0.0/8"
      [] text = "1.0.0.0/9\n"     -> "1.0.0.0/9"
      [] text = "1.128.0.0/9"     -> "1.128.0.0/9"
      [] text = "110.16.0.0/12\n" -> "110.16.0.0/12"
      [] text = "110.16.0.0/13\n" -> "110.16.0.0/13"
      [] text = "0.0.0.0/0\n"     -> "0.0.0.0/0"
      [] text = "1.0.1.0\n"       -> "1.0.1.0"
      [] text = "# AS4134\n"      -> "# AS4134"
      [] text = "  \n"            -> ""
Strip(line) == [line EXCEPT !.text = StripText(@)]

\* line and not line.startswith("#")
KeptLine(line) == line.text # "" /\ line.text \notin {"# AS4134"}

\* The lines of one file that reach all_cidrs, in the order of the file.
ReadLines(lines) ==
    SelectSeq([i \in 1 .. Len(lines) |-> Strip(lines[i])], KeptLine)

\* The loop over the files in the order glob yields them: a stem that is not
\* of two characters is skipped, the others give their lines with the tag.
RECURSIVE CollectFrom(_, _)
CollectFrom(paths, k) ==
    IF k > Len(paths) THEN <<>>
    ELSE LET country_code == UpperStr(paths[k].stem)
             rest == CollectFrom(paths, k + 1)
         IN  IF Len(country_code) # 2 THEN rest
             ELSE LET val == country_code_to_u16(country_code)
                      kept == ReadLines(paths[k].lines)
                  IN  [i \in 1 .. Len(kept) |-> [cidr |-> kept[i], val |-> val]]
                         \o rest

\* The sort key int(x[0].split("/")[1]) of a line: what it raises ("none":
\* nothing) and its value.
KeyParts(line) ==
    IF line.text = "x.0.0.0/8" THEN <<"x.0.0.0", "8">> ELSE SplitSlash(line.text)
KeyRaised(line) ==
    IF Len(KeyParts(line)) < 2 THEN "IndexError"
    ELSE IF KeyParts(line)[2] \notin IntTexts THEN "ValueError"
    ELSE "none"
SortKey(line) == IntOf(KeyParts(line)[2])

\* all_cidrs.sort(key=...): ascending in the key, pairs of one key in the
\* order they had (the sort is stable).
RECURSIVE SortFrom(_, _)
SortFrom(all_cidrs, keys) ==
    IF keys = {} THEN <<>>
    ELSE LET least == CHOOSE m \in keys : \A n \in keys : m <= n
             HasLeast(pair) == SortKey(pair.cidr) = least
         IN  SelectSeq(all_cidrs, HasLeast) \o SortFrom(all_cidrs, keys \ {least})
SortByMask(all_cidrs) ==
    SortFrom(all_cidrs, {SortKey(all_cidrs[i].cidr) : i \in 1 .. Len(all_cidrs)})

\* What the try block of add_cidr yields for the text "x.0.0.0/8".
Slash8(x) ==
    [ok |-> TRUE, mask |-> 8, family |-> "AF_INET", ip_bytes |-> <<x, 0, 0, 0>>]

\* builder.add_cidr(cidr, val) on a line of all_cidrs.
AddLine(t, line, val) ==
    IF line.text = "x.0.0.0/8"
    THEN IF ~ValueInRange(val)
         THEN [tree |-> t, raised |-> "ValueError"]
         ELSE Insert(t, Slash8(line.x).ip_bytes, Slash8(line.x).mask, val)
    ELSE add_cidr(t, line.text, val)

\* The loop of add_cidr calls over all_cidrs[lo .. hi]: it ends at the first
\* call that raises, the tree as the calls before it left it.  (The range is
\* halved, the first half evaluated before the second starts.)
RECURSIVE LoadScan(_, _, _, _)
LoadScan(st, all_cidrs, lo, hi) ==
    IF lo > hi \/ st.raised # "none" THEN st
    ELSE IF lo = hi
    THEN AddLine(st.tree, all_cidrs[lo].cidr, all_cidrs[lo].val)
    ELSE LET mid == (lo + hi) \div 2
             half == LoadScan(st, all_cidrs, lo, mid)
         IN  IF half.raised # "none" THEN half
             ELSE LoadScan(half, all_cidrs, mid + 1, hi)

\* load_txt_dir(builder, txt_dir) on the tree t, the files of the directory
\* in the order paths: the tree it leaves and the exception it raises.  A
\* key that raises does so in the sort, before any add_cidr.
load_txt_dir(t, paths) ==
    LET all_cidrs == CollectFrom(paths, 1)
        bad == {i \in 1 .. Len(all_cidrs) : KeyRaised(all_cidrs[i].cidr) # "none"}
    IN  IF bad # {}
        THEN [tree |-> t,
              raised |-> KeyRaised(all_cidrs[CHOOSE i \in bad :
                                                \A j \in bad : i <= j].cidr)]
        ELSE LET sorted == SortByMask(all_cidrs)
             IN  LoadScan([tree |-> t, raised |-> "none"], sorted, 1, Len(sorted))

\* The lines "x.0.0.0/8" of the first bytes of xs within lo .. hi, ascending.
RECURSIVE Slash8Lines(_, _, _)
Slash8Lines(xs, lo, hi) ==
    IF lo > hi THEN <<>>
    ELSE IF lo = hi THEN (IF lo \in xs THEN <<Slash8Line(lo)>> ELSE <<>>)
    ELSE Slash8Lines(xs, lo, (lo + hi) \div 2)
            \o Slash8Lines(xs, (lo + hi) \div 2 + 1, hi)

\* The directories loaded, each the set of its *.txt files: the /8 of every
\* first byte; of every first byte but 1; the /9 pair under byte 1 beside a
\* file whose stem is no country code; a /13 with the /12 around it, and the
\* /9 pair, under two codes; a stem whose tag exceeds 65535; a line without mask.
TxtDirs ==
    [all   |-> {[stem |-> <<"a", "a">>, lines |-> Slash8Lines(0 .. 255, 0, 255)]},
     but1  |-> {[stem |-> <<"A", "A">>,
                 lines |-> Slash8Lines((0 .. 255) \ {1}, 0, 255)]},
     nines |-> {[stem |-> <<"A", "A">>,
                 lines |-> <<Line("# AS4134\n"), Line("1.0.0.0/9\n"),
                             Line("  \n"), Line("1.128.0.0/9")>>],
                [stem |-> <<"a", "b", "c">>, lines |-> <<Line("0.0.0.0/0\n")>>]},
     mixed |-> {[stem |-> <<"A", "A">>,
                 lines |-> <<Line("110.16.0.0/13\n"), Line("1.128.0.0/9")>>],
                [stem |-> <<"B", "B">>,
                 lines |-> <<Line("110.16.0.0/12\n"), Line("1.0.0.0/9\n")>>]},
     wide  |-> {[stem |-> <<"U+0100", "A">>, lines |-> <<Line("1.0.0.0/9\n")>>]},
     bare  |-> {[stem |-> <<"A", "A">>, lines |-> <<Line("1.0.1.0\n")>>]}]

\* The orders in which glob may yield the files of a directory.
GlobOrders(files) ==
    {paths \in [1 .. Cardinality(files) -> files] :
        {paths[i] : i \in 1 .. Cardinality(files)} = files}

\* load_txt_dir(builder, txt_dir)
BulkLoad(txt_dir, paths) ==
    /\ Len(log) < MaxBulkCalls
    /\ LET r == load_txt_dir(root, paths)
       IN  /\ root' = r.tree
           /\ raised' = r.raised
    /\ last' = "load_txt_dir"
    /\ ncalls' = ncalls + 1
    /\ UNCHANGED file
    /\ log' = Append(log, [op |-> txt_dir, cidr |-> "", value |-> 0])

BulkSave ==
    /\ Len(log) < MaxBulkCalls
    /\ SaveCall
    /\ log' = Append(log, [op |-> "save", cidr |-> "", value |-> 0])

NextBulk ==
    \/ \E txt_dir \in DOMAIN TxtDirs :
          \E paths \in GlobOrders(TxtDirs[txt_dir]) : BulkLoad(txt_dir, paths)
    \/ BulkSave

SpecBulk == Init /\ [][NextBulk]_vars

(***************************************************************************)
(* What the claims speak of: keys, valid calls, prefixes and cover.        *)
(***************************************************************************)
\* The 4-byte and 16-byte keys the lookups are tried on: in and around the
\* prefixes of CidrTexts.
Keys4 ==
    {<<a, b, c, d>> : a \in {0, 1, 110, 128}, b \in {0, 16, 17, 24},
                      c \in {0, 1}, d \in {0, 5}}

Key16(head) == head \o Zeros(16 - Len(head))

Keys16 ==
    { Key16(<<>>), Key16(<<36, 14>>), [Key16(<<36, 14>>) EXCEPT ![16] = 1],
      Key16(<<36, 14, 63, 255, 255, 255>>), Key16(<<36, 14, 64>>),
      Key16(<<1, 0, 1, 0>>), Key16(<<110, 16>>), Key16(<<128>>) }

Keys == Keys4 \cup Keys16

\* A tag add_cidr must accept.
ValidTag(v) == v \in 1 .. 65535

\* A text that is a CIDR of its family: address/mask with the mask within
\* 0 .. 32 for IPv4 and 0 .. 128 for IPv6.
ValidCidrText(cidr) ==
    LET p == ParseCidr(cidr)
    IN  p.ok /\ p.mask >= 0 /\ p.mask <= 8 * Len(p.ip_bytes)

\* Whether the key lies inside the prefix ip_bytes/mask of its own family.
InPrefix(key, ip_bytes, mask) ==
    /\ Len(key) = Len(ip_bytes)
    /\ \A i \in 1 .. (mask \div 8) : key[i] = ip_bytes[i]
    /\ (mask % 8 # 0) =>
          key[mask \div 8 + 1] \div Pow2(8 - (mask % 8))
              = ip_bytes[mask \div 8 + 1] \div Pow2(8 - (mask % 8))

\* A logged call that adds a prefix: add_cidr with a valid tag and text.
IsAdd(e) == e.op = "add_cidr" /\ ValidTag(e.value) /\ ValidCidrText(e.cidr)

\* The prefix of text shorter strictly covers the prefix of text longer.
Covers(shorter, longer) ==
    LET p == ParseCidr(shorter)
        q == ParseCidr(longer)
    IN  p.mask < q.mask /\ InPrefix(q.ip_bytes, p.ip_bytes, p.mask)

\* The logged calls are add_cidr calls of prefixes in ascending mask order.
AscendingAdds(l) ==
    /\ \A i \in 1 .. Len(l) : IsAdd(l[i])
    /\ \A i \in 1 .. Len(l), j \in 1 .. Len(l) :
          i < j => ParseCidr(l[i].cidr).mask <= ParseCidr(l[j].cidr).mask

\* The nodes of the tree t that save writes a record for: the root and every
\* node that has children.
Serialized(t) == {p \in DOMAIN t : p = <<>> \/ t[p].children # {}}

\* Whether the file holds a node record at byte offset off.
HoldsRecordAt(f, off) ==
    \E k \in 0 .. (Len(f.nodes) - 1) : off = 16 + 72 * k

\* The number of set bits of the bitmap bm for byte keys smaller than b.
BitsBefore(bm, b) == Cardinality({k \in 0 .. (b - 1) : (255 - k) \in bm})

\* The offset at which the file f holds the record of the node at path p,
\* found from the root record down through the child offsets of the file
\* (-1 when the way leaves the node array).
RECURSIVE OffsetOf(_, _)
OffsetOf(f, p) ==
    IF p = <<>> THEN 16
    ELSE LET up == OffsetOf(f, SubSeq(p, 1, Len(p) - 1))
         IN  IF ~HoldsRecordAt(f, up) THEN -1
             ELSE LET rec == f.nodes[(up - 16) \div 72 + 1]
                  IN  rec.child_offset + BitsBefore(rec.child_bm, p[Len(p)]) * 72

\* Whether the record of f at offset off is the record of the node of t at p:
\* its child bits are the keys of the children that have children, its leaf
\* bits the keys of the children that are leaves.
IsRecordOf(f, off, t, p) ==
    /\ HoldsRecordAt(f, off)
    /\ p \in DOMAIN t
    /\ LET rec == f.nodes[(off - 16) \div 72 + 1]
       IN  /\ rec.child_bm =
                 {255 - k : k \in {c \in t[p].children : t[Append(p, c)].children # {}}}
           /\ rec.leaf_bm =
                 {255 - k : k \in {c \in t[p].children : t[Append(p, c)].is_leaf}}

(***************************************************************************)
(* The claims.                                                             *)
(***************************************************************************)
\* C1: after add_cidr calls followed by save, every added prefix p with tag
\* t that no later added shorter prefix with a different tag covers has the
\* lookup of every address inside p return t.
LookupReturnsInsertedTag ==
    ( /\ last = "save"
      /\ Len(log) >= 2
      /\ log[Len(log)].op = "save"
      /\ \A i \in 1 .. (Len(log) - 1) : log[i].op = "add_cidr" )
    => \A i \in 1 .. (Len(log) - 1) :
          ( /\ IsAdd(log[i])
            /\ ~\E j \in (i + 1) .. (Len(log) - 1) :
                   /\ IsAdd(log[j])
                   /\ log[j].value # log[i].value
                   /\ Covers(log[j].cidr, log[i].cidr) )
          => \A key \in Keys :
                InPrefix(key, ParseCidr(log[i].cidr).ip_bytes,
                         ParseCidr(log[i].cidr).mask)
                => LookupCode(file, key) = log[i].value

\* C2: with the prefixes added in ascending mask order, adding a prefix that
\* an earlier added shorter prefix strictly covers changes the lookup result
\* of no address, whatever the two tags and whether or not the shorter mask
\* is a multiple of 8.
CoveredAddChangesNoLookup ==
    [][ ( /\ Len(log') = Len(log) + 1
          /\ AscendingAdds(log')
          /\ \E i \in 1 .. Len(log) :
                Covers(log[i].cidr, log'[Len(log')].cidr) )
        => \A key \in Keys :
              LookupCode(save(root').file, key) = LookupCode(save(root).file, key)
      ]_vars

\* C3: pruning preserves lookups: at every save, every key has the same
\* lookup result on the file written (the serialization of the pruned tree)
\* as on the serialization of the tree as it was before pruning.
PruneKeepsLookups ==
    [][ (last' = "save" /\ ncalls' = ncalls + 1)
        => \A key \in Keys :
              LookupCode(file', key) = LookupCode(Serialize(root), key)
      ]_vars

\* C4: add_cidr with a tag outside 1 .. 65535 raises the hard error for every
\* cidr text and leaves the tree exactly as it was.
BadTagRaisesAndKeepsTree ==
    [][ \A cidr \in CidrTexts, value \in Values :
          (value \notin 1 .. 65535 /\ AddCidr(cidr, value))
          => (raised' = "ValueError" /\ root' = root)
      ]_vars

\* C4 witness: a tree that holds nodes, just after add_cidr raised ValueError.
BadTagRaised == raised = "ValueError" /\ last = "add_cidr" /\ DOMAIN root # {<<>>}

\* C5: add_cidr with a valid tag and a text that is not a valid CIDR of its
\* family (a mask out of range included) raises nothing and leaves the tree
\* unchanged.
BadCidrIsSilentNoOp ==
    [][ \A cidr \in CidrTexts, value \in Values :
          (ValidTag(value) /\ ~ValidCidrText(cidr) /\ AddCidr(cidr, value))
          => (raised' = "none" /\ root' = root)
      ]_vars

\* C6: adding a prefix that lies inside an already added prefix with the same
\* tag is a no-op: save writes the same bytes as without the longer prefix.
SameTagInsideIsNoOp ==
    [][ ( /\ Len(log') = Len(log) + 1
          /\ IsAdd(log'[Len(log')])
          /\ \E i \in 1 .. Len(log) :
                /\ IsAdd(log[i])
                /\ log[i].value = log'[Len(log')].value
                /\ Covers(log[i].cidr, log'[Len(log')].cidr) )
        => save(root').file = save(root).file
      ]_vars

\* C7: every file save writes passes the validation of open: magic PTV2,
\* reserved 0, node_cnt at least 1 and the number of node records written
\* with the root's first, val_cnt the number of values written, and a length
\* of exactly 16 + node_cnt * 72 + val_cnt * 2.
SavedFileIsWellFormed ==
    last = "save" =>
        /\ OpenOk(file)
        /\ file.magic = "PTV2"
        /\ file.reserved = 0
        /\ file.node_cnt >= 1
        /\ file.node_cnt = Len(file.nodes)
        /\ IsRecordOf(file, 16, root, <<>>)
        /\ file.val_cnt = Len(file.values)
        /\ file.size = 16 + file.node_cnt * 72 + file.val_cnt * 2

\* C7 witness: a written file of several nodes and several values.
SavedSeveralNodes == last = "save" /\ file.node_cnt >= 3 /\ file.val_cnt >= 2

\* C8: on every written file the lookup of every key is total and bounded:
\* every node offset it follows is 16 + 72 k with k < node_cnt, every value
\* index it reads is below val_cnt, and it visits at most 4 nodes for a
\* 4-byte key and at most 16 for a 16-byte key.  The same is stated of every
\* set bit of every record, which covers the keys not tried.
LookupStaysInFile ==
    last = "save" =>
        /\ \A key \in Keys :
              LET st == Lookup(file, key)
              IN  /\ ~st.fault
                  /\ \A n \in 1 .. Len(st.followed) :
                        \E k \in 0 .. (file.node_cnt - 1) :
                            st.followed[n] = 16 + 72 * k
                  /\ \A n \in 1 .. Len(st.value_idx) :
                        st.value_idx[n] >= 0 /\ st.value_idx[n] < file.val_cnt
                  /\ Len(st.visited) <= (IF Len(key) = 4 THEN 4 ELSE 16)
        /\ \A n \in 1 .. Len(file.nodes) :
              LET rec == file.nodes[n]
              IN  /\ \A b \in 0 .. 255 :
                        (255 - b) \in rec.child_bm =>
                            \E k \in 0 .. (file.node_cnt - 1) :
                                rec.child_offset + BitsBefore(rec.child_bm, b) * 72
                                    = 16 + 72 * k
                  /\ \A b \in 0 .. 255 :
                        (255 - b) \in rec.leaf_bm =>
                            rec.leaf_base_index + BitsBefore(rec.leaf_bm, b)
                                < file.val_cnt

\* C8 witness: a written file on which the lookup of a 16-byte key visits 16
\* nodes and reads a value.
LookupVisitsSixteen ==
    /\ last = "save"
    /\ \E key \in Keys16 :
          /\ Len(Lookup(file, key).visited) = 16
          /\ Len(Lookup(file, key).value_idx) > 0

\* C9: in every written file, for every serialized node and every byte key b
\* whose child bit is set, the record at child_offset + j * 72, j the number
\* of set child bits for smaller keys, is the record of the node's child
\* under b; child_offset is 0 exactly when no child of the node has children.
\* Distinct nodes have distinct records, and there are no other records.
ChildRecordsFollowOffsets ==
    last = "save" =>
        /\ \A p \in Serialized(root) :
              LET off == OffsetOf(file, p)
              IN  /\ IsRecordOf(file, off, root, p)
                  /\ LET rec == file.nodes[(off - 16) \div 72 + 1]
                     IN  /\ \A b \in 0 .. 255 :
                               (255 - b) \in rec.child_bm =>
                                  /\ b \in root[p].children
                                  /\ IsRecordOf(file,
                                        rec.child_offset
                                           + BitsBefore(rec.child_bm, b) * 72,
                                        root, Append(p, b))
                         /\ (rec.child_offset = 0) <=>
                               (\A b \in root[p].children :
                                   root[Append(p, b)].children = {})
        /\ Cardinality({OffsetOf(file, p) : p \in Serialized(root)})
              = Cardinality(Serialized(root))
        /\ Len(file.nodes) = Cardinality(Serialized(root))

\* C9 witness: a written file whose root record has two child bits set, the
\* second child's record lying after the first child's.
SavedTwoChildBits ==
    /\ last = "save"
    /\ Cardinality(file.nodes[1].child_bm) >= 2
    /\ file.node_cnt >= 5

\* C10: in every written file, for every serialized node and every byte key
\* b whose leaf bit is set, the value at index leaf_base_index + i, i the
\* number of set leaf bits for smaller keys, is the tag of the node's leaf
\* child under b.
LeafValuesFollowBaseIndex ==
    last = "save" =>
        \A p \in Serialized(root) :
            LET off == OffsetOf(file, p)
            IN  /\ HoldsRecordAt(file, off)
                /\ LET rec == file.nodes[(off - 16) \div 72 + 1]
                   IN  \A b \in 0 .. 255 :
                          (255 - b) \in rec.leaf_bm =>
                             LET idx == rec.leaf_base_index
                                           + BitsBefore(rec.leaf_bm, b)
                             IN  /\ b \in root[p].children
                                 /\ root[Append(p, b)].is_leaf
                                 /\ idx < Len(file.values)
                                 /\ file.values[idx + 1] = root[Append(p, b)].value

\* C10 witness: a written file with a record below the root whose leaves
\* start at a value index above 0.
SavedLeavesAtLaterIndex ==
    /\ last = "save"
    /\ \E n \in 2 .. Len(file.nodes) :
          file.nodes[n].leaf_base_index > 0 /\ file.nodes[n].leaf_bm # {}

\* C11: in every state reached by add_cidr calls and the pruning of save, a
\* node that is a leaf has no children (and no node lies below it), so no
\* record of a written file has the child bit and the leaf bit of one byte
\* both set.
LeafHasNoChildren ==
    /\ \A p \in DOMAIN root :
          root[p].is_leaf => (root[p].children = {} /\ Below(root, p) = {})
    /\ last = "save" =>
          \A n \in 1 .. Len(file.nodes) :
              file.nodes[n].child_bm \cap file.nodes[n].leaf_bm = {}

\* C11 witness: a written file with a record that has child bits and leaf
\* bits, over a tree with a leaf below the root.
SavedChildAndLeafBits ==
    /\ last = "save"
    /\ \E p \in DOMAIN root : p # <<>> /\ root[p].is_leaf
    /\ \E n \in 1 .. Len(file.nodes) :
          file.nodes[n].child_bm # {} /\ file.nodes[n].leaf_bm # {}

\* The nodes on the way of add_cidr to its target: the first j bytes of
\* ip_bytes for j = 0 .. steps.
OnPath(ip_bytes, steps) == {SubSeq(ip_bytes, 1, j) : j \in 0 .. steps}

\* The way to the target meets no leaf in the tree t.
PathMeetsNoLeaf(t, ip_bytes, steps) ==
    \A q \in OnPath(ip_bytes, steps) : q \in DOMAIN t => ~t[q].is_leaf

\* The children keys of the node at q in t, none when t has no such node.
KeysAt(t, q) == IF q \in DOMAIN t THEN t[q].children ELSE {}

\* C12: from every tree reached, add_cidr of a valid prefix with a mask that
\* is no multiple of 8, on a way that meets no leaf, replaces exactly the
\* children of the target at the
\* bytes lo .. hi by childless leaves carrying the tag, whatever was below
\* them; the target's other children and everything off the way from the
\* root stay as they were.
UnalignedAddReplacesRange ==
    \A cidr \in TreeTexts, value \in TreeValues :
        LET p == ParseCidr(cidr)
            r == add_cidr(root, cidr, value)
        IN  ( /\ ValidTag(value)
              /\ ValidCidrText(cidr)
              /\ p.mask % 8 # 0
              /\ PathMeetsNoLeaf(root, p.ip_bytes, p.mask \div 8) )
            => LET steps == p.mask \div 8
                   width == Pow2(8 - (p.mask % 8))
                   byte == p.ip_bytes[steps + 1]
                   lo == byte - (byte % width)
                   hi == lo + width - 1
                   target == SubSeq(p.ip_bytes, 1, steps)
                   fresh == {Append(target, b) : b \in lo .. hi}
                   way == OnPath(p.ip_bytes, steps)
               IN  /\ r.raised = "none"
                   /\ DOMAIN r.tree =
                         {q \in DOMAIN root : \A f \in fresh : ~IsPrefix(f, q)}
                            \cup way \cup fresh
                   /\ \A q \in fresh :
                         r.tree[q] = [children |-> {}, is_leaf |-> TRUE,
                                      value |-> value]
                   /\ \A q \in (DOMAIN r.tree) \ (way \cup fresh) :
                         r.tree[q] = root[q]
                   /\ \A q \in way :
                         /\ ~r.tree[q].is_leaf
                         /\ r.tree[q].value = None
                         /\ r.tree[q].children =
                               KeysAt(root, q) \cup
                                  (IF q = target THEN lo .. hi
                                   ELSE {p.ip_bytes[Len(q) + 1]})

\* C12 witness: the root holding the 128 leaves of 128.0.0.0/1 beside the
\* subtree of 1.0.1.0/24, which lies outside 128 .. 255.
RangeReplacedBesideSubtree ==
    /\ last = "add_cidr"
    /\ raised = "none"
    /\ (128 .. 255) \subseteq root[<<>>].children
    /\ <<1, 0, 1>> \in DOMAIN root
    /\ root[<<1, 0, 1>>].is_leaf
    /\ root[<<128>>].is_leaf

\* C13: last writer wins among duplicates of one prefix: from every tree
\* reached, adding a prefix with tag a and then again with tag b leaves the
\* tree that adding it once with tag b leaves.
LastDuplicateWins ==
    \A cidr \in TreeTexts, b \in TreeValues :
        LET once == add_cidr(root, cidr, b).tree
        IN  \A a \in TreeValues :
               (ValidCidrText(cidr) /\ ValidTag(a) /\ ValidTag(b))
               => add_cidr(add_cidr(root, cidr, a).tree, cidr, b).tree = once

\* C13 witness: a tree, holding the leaf of 1.0.1.0/24 and the leaves of
\* 110.16.0.0/12, on which a duplicate with another tag changes both.
DuplicateRelabels ==
    /\ <<1, 0, 1>> \in DOMAIN root
    /\ root[<<1, 0, 1>>].is_leaf
    /\ <<110, 16>> \in DOMAIN root
    /\ root[<<110, 16>>].is_leaf
    /\ \A cidr \in {"1.0.1.0/24", "110.16.0.0/12"} :
          \E b \in TreeValues :
              /\ add_cidr(root, cidr, b).tree # root
              /\ add_cidr(add_cidr(root, cidr, root[<<1, 0, 1>>].value).tree,
                          cidr, b).tree
                    = add_cidr(root, cidr, b).tree

\* The logged calls before the last are add_cidr calls of valid texts, and
\* the last is the save that wrote the file.
AddsThenSave ==
    /\ last = "save"
    /\ Len(log) >= 2
    /\ log[Len(log)].op = "save"
    /\ \A i \in 1 .. (Len(log) - 1) : IsAdd(log[i])

\* The 4-byte keys tried against IPv6 prefixes: Keys4 and the first four
\* bytes of 240e::.
Keys4In6 == Keys4 \cup {<<36, 14, 0, 0>>, <<36, 14, 0, 1>>}

\* C15: the address families are isolated in the one tree: with only IPv6
\* prefixes added the lookup of every 4-byte key returns 0, and with only
\* IPv4 prefixes added the lookup of every 16-byte key returns 0.
FamiliesAreIsolated ==
    AddsThenSave =>
        /\ (\A i \in 1 .. (Len(log) - 1) :
               ParseCidr(log[i].cidr).family = "AF_INET6")
           => \A key \in Keys4In6 : LookupCode(file, key) = 0
        /\ (\A i \in 1 .. (Len(log) - 1) :
               ParseCidr(log[i].cidr).family = "AF_INET")
           => \A key \in Keys16 : LookupCode(file, key) = 0

\* Pairs of texts of TreeTexts of one family and one mask length.
EqualLengthPairs ==
    { <<"0.0.0.0/1", "128.0.0.0/1">>, <<"110.16.0.0/12", "110.32.0.0/12">>,
      <<"1.0.1.0/24", "1.0.2.0/24">> }

\* Two valid prefixes of one family and one mask length that differ in their
\* network bits.
SameLengthOtherBits(c1, c2) ==
    /\ ValidCidrText(c1)
    /\ ValidCidrText(c2)
    /\ LET p == ParseCidr(c1)
           q == ParseCidr(c2)
       IN  /\ p.family = q.family
           /\ p.mask = q.mask
           /\ ~InPrefix(q.ip_bytes, p.ip_bytes, p.mask)

\* C16: add_cidr commutes on prefixes of equal length: from every tree
\* reached, two valid prefixes of one family and one mask length with
\* different network bits, with any tags, leave the same tree in either
\* order (and so the same file, save being a function of the tree).
EqualLengthAddsCommute ==
    \A pair \in EqualLengthPairs, a \in TreeValues, b \in TreeValues :
        (SameLengthOtherBits(pair[1], pair[2]) /\ ValidTag(a) /\ ValidTag(b))
        => add_cidr(add_cidr(root, pair[1], a).tree, pair[2], b).tree
              = add_cidr(add_cidr(root, pair[2], b).tree, pair[1], a).tree

\* C16 witness: a tree holding 1.0.1.0/24 and 1.0.2.0/24 with different
\* tags, and both leaves of the /1 pair added to it.
EqualLengthPairAdded ==
    /\ last = "add_cidr"
    /\ <<1, 0, 1>> \in DOMAIN root
    /\ <<1, 0, 2>> \in DOMAIN root
    /\ root[<<1, 0, 1>>].is_leaf
    /\ root[<<1, 0, 2>>].is_leaf
    /\ root[<<1, 0, 1>>].value # root[<<1, 0, 2>>].value
    /\ \A pair \in EqualLengthPairs : SameLengthOtherBits(pair[1], pair[2])
    /\ add_cidr(add_cidr(root, "0.0.0.0/1", 1).tree, "128.0.0.0/1", 65535).tree
          # root

\* C17: after add_cidr calls of valid CIDR texts with masks in range, every
\* node but the root that is no leaf has a child, and no node lies deeper
\* than 16 levels below the root, nor deeper than 4 when all prefixes added
\* are IPv4.
NoPlaceholderNoDeepNode ==
    (\A i \in 1 .. Len(log) :
        log[i].op = "add_cidr" /\ ValidCidrText(log[i].cidr))
    => /\ \A p \in DOMAIN root :
             /\ (p # <<>> /\ ~root[p].is_leaf) => root[p].children # {}
             /\ \A b \in root[p].children : Append(p, b) \in DOMAIN root
             /\ Len(p) <= 16
       /\ (\A i \in 1 .. Len(log) : ParseCidr(log[i].cidr).family = "AF_INET")
          => \A p \in DOMAIN root : Len(p) <= 4

\* C17 witness: valid adds only, the last one covered by the one before it,
\* over a tree with a node 16 levels below the root.
CoveredAddOverDeepTree ==
    /\ Len(log) >= 3
    /\ \A i \in 1 .. Len(log) : IsAdd(log[i])
    /\ Covers(log[Len(log) - 1].cidr, log[Len(log)].cidr)
    /\ \E p \in DOMAIN root : Len(p) = 16

\* The value the node of t at p carries as a leaf once it and all below it
\* are pruned, None when it does not end as a leaf: a node without children
\* ends as what it is, a node with children ends as a leaf exactly when it
\* has 256 children that all end as leaves of one value.
RECURSIVE EndsLeafValue(_, _)
EndsLeafValue(t, p) ==
    IF t[p].children = {}
    THEN IF t[p].is_leaf THEN t[p].value ELSE None
    ELSE LET ends == {EndsLeafValue(t, Append(p, b)) : b \in t[p].children}
         IN  IF Cardinality(t[p].children) = 256
                /\ Cardinality(ends) = 1 /\ None \notin ends
             THEN CHOOSE v \in ends : TRUE
             ELSE None

\* C14: the pruning of save makes a node a leaf exactly when, its children
\* pruned, it has 256 children that are all leaves of one value, which
\* becomes its value; the nodes below a node made a leaf go, every other node
\* stays as it was (fewer than 256 children, or mixed values, keep the
\* children); after it no node that is not a leaf has 256 leaf children of
\* one value; and a root made a leaf gives a file of exactly one node.
PruneMergesExactlyFullEqual ==
    [][ (last' = "save" /\ ncalls' = ncalls + 1) =>
          /\ DOMAIN root' =
                {p \in DOMAIN root :
                    \A j \in 0 .. (Len(p) - 1) :
                       \/ root[SubSeq(p, 1, j)].children = {}
                       \/ EndsLeafValue(root, SubSeq(p, 1, j)) = None}
          /\ \A p \in DOMAIN root' :
                IF root[p].children # {} /\ EndsLeafValue(root, p) # None
                THEN root'[p] = [children |-> {}, is_leaf |-> TRUE,
                                 value |-> EndsLeafValue(root, p)]
                ELSE root'[p] = root[p]
          /\ \A p \in DOMAIN root' :
                ~root'[p].is_leaf =>
                   ~( /\ Cardinality(root'[p].children) = 256
                      /\ \A b \in root'[p].children :
                            root'[Append(p, b)].is_leaf
                      /\ \A b \in root'[p].children, c \in root'[p].children :
                            root'[Append(p, b)].value = root'[Append(p, c)].value )
          /\ root'[<<>>].is_leaf => file'.node_cnt = 1
      ]_vars

\* C14 witness: the /9 pair under byte 1 and the /8 of every other first
\* byte, all of one tag, then save: node 1 collapsed, then the root, and the
\* file has one node.
PruneCascadedToRoot ==
    /\ Len(log) = 3
    /\ log[1].op = "nines"
    /\ log[2].op = "but1"
    /\ log[3].op = "save"
    /\ root = [q \in {<<>>} |->
                  [children |-> {}, is_leaf |-> TRUE, value |-> 16705]]
    /\ file.node_cnt = 1

====
